---- MODULE Spec2Model ----
(***************************************************************************)
(* Model of vanity-did-plc: the 256-bit modular arithmetic (math.rs), the  *)
(* private-key-1 ECDSA fast path (insecure_ecdsa.rs) and the worker pool,  *)
(* match channel, submitter and shutdown of main.rs.                       *)
(*                                                                         *)
(* The 256-bit words are scaled to W bits and secp256k1 to curves over     *)
(* small prime fields, so that every value is enumerable.  All arithmetic  *)
(* on words wraps modulo 2^W, as U256 does in a release build.             *)
(***************************************************************************)
EXTENDS Integers, Sequences, FiniteSets, TLC

\* Width of the unsigned word (256 in the source).
W == 6

TwoW == 2 ^ W
Word == 0 .. (TwoW - 1)

\* U256 +, -, *, << 1 : the result kept in the word.
WAdd(x, y) == (x + y) % TwoW
WSub(x, y) == (x - y) % TwoW
WMul(x, y) == (x * y) % TwoW
WShl1(x) == (2 * x) % TwoW

VARIABLES
    \* a call of the arithmetic of math.rs
    mpc,          \* "off", "input", "add_mod", "mod_inverse", "mul_mod"
    mn, ma, mb,   \* the modulus and the operands
    mres,         \* what the call returned
    \* a call of generate_signatures
    gpc,          \* "off", "reduce", "add", "done", "panic"
    g_curve, g_constants,
    g_hash,         \* SHA-256 of data_buf as an integer (the initial digest)
    g_digest,       \* the running digest
    g_idx,          \* table entries consumed so far
    g_signatures, \* the vector being built
    \* main and the worker pool (g_curve and g_constants are main's curve
    \* and constants, which every worker gets a clone of)
    dry_run, regex, seed,   \* the arguments
    running_flag,
    mainpc,       \* "wait_ctrl_c", "join", "goodbye"
    wpc,          \* per worker: "top", "scan", "done", "send_failed", "panicked"
    wi,           \* per worker: i
    last_metrics_i,
    unsigned_buf, signed_buf, signed_op,
    sigs,         \* per worker: the signatures of the current batch
    wj,           \* per worker: the next index into sigs
    total_checked,
    channel,      \* the messages sent and not yet received
    rx_open,      \* whether output_channel_rx is alive
    subpc,        \* the submitter: "recv", "post", "panicked"
    submsg,       \* the message the submitter is posting
    written       \* history: every counter a worker has patched in

mathVars == <<mpc, mn, ma, mb, mres>>
sigVars == <<gpc, g_curve, g_constants, g_hash, g_digest, g_idx, g_signatures>>
argVars == <<dry_run, regex, seed>>
workerVars == <<wpc, wi, last_metrics_i, unsigned_buf, signed_buf, signed_op, sigs, wj>>
poolVars == <<argVars, running_flag, mainpc, workerVars, total_checked, channel,
              rx_open, subpc, submsg, written>>
vars == <<mathVars, sigVars, poolVars>>

(***************************************************************************)
(* math.rs                                                                 *)
(***************************************************************************)

\* add_mod with the naive a + b reduced afterwards.
add_mod_naive(a, b, n) ==
    [result |-> WAdd(a, b) % n, raw |-> {a + b}]

\* add_mod, with the unreduced value of every intermediate of the branch
\* taken (n - 1, (n - 1) - a, then a + b or b - space, b - space - 1).
add_mod_trace(a, b, n) ==
    LET nm1 == WSub(n, 1)
        space == WSub(nm1, a)
    IN  IF b <= space
        THEN [result |-> WAdd(a, b),
              raw |-> {n - 1, nm1 - a, a + b}]
        ELSE [result |-> WSub(WSub(b, space), 1),
              raw |-> {n - 1, nm1 - a, b - space, WSub(b, space) - 1}]

add_mod(a, b, n) == add_mod_trace(a, b, n).result

sub_mod(a, b, n) ==
    IF a >= b THEN WSub(a, b) ELSE WSub(n, WSub(b, a))

\* The doubling of mul_mod and generate_signatures: (2a) mod n for a < n.
double_mod(a, n) ==
    IF a < WSub(n, a) THEN WShl1(a) ELSE WSub(a, WSub(n, a))

RECURSIVE mul_mod_loop(_, _, _, _)
mul_mod_loop(result, a, b, n) ==
    IF b # 0
    THEN mul_mod_loop(IF b % 2 = 1 THEN add_mod(result, a, n) ELSE result,
                      double_mod(a, n), b \div 2, n)
    ELSE result % n

mul_mod(a, b, n) == mul_mod_loop(0, a % n, b % n, n)

\* One pass of the loop body of mod_inverse on the signed pair (x0, x1):
\* the new x0 = x1 - q * x0 as magnitude and sign.
inverse_step(q, x0, x1) ==
    LET qx0 == WMul(q, x0.value)
    IN  IF x0.is_negative # x1.is_negative
        THEN [value |-> WAdd(x1.value, qx0), is_negative |-> x1.is_negative]
        ELSE IF x1.value > qx0
             THEN [value |-> WSub(x1.value, qx0), is_negative |-> x1.is_negative]
             ELSE [value |-> WSub(qx0, x1.value), is_negative |-> ~x0.is_negative]

\* The result of mod_inverse with the sign of the coefficient dropped.
inverse_result_unsigned(x1, b0) == x1.value

inverse_result(x1, b0) ==
    IF x1.is_negative THEN WSub(b0, x1.value) ELSE x1.value

RECURSIVE mod_inverse_loop(_, _, _, _, _)
mod_inverse_loop(a, b, x0, x1, b0) ==
    IF a > 1
    THEN IF b = 0
         THEN 0
         ELSE mod_inverse_loop(b, a % b, inverse_step(a \div b, x0, x1), x0, b0)
    ELSE inverse_result(x1, b0)

mod_inverse(a, b) ==
    IF b <= 1
    THEN 0
    ELSE mod_inverse_loop(a, b, [value |-> 0, is_negative |-> FALSE],
                          [value |-> 1, is_negative |-> FALSE], b)

\* Option<Point>::None, and the outcome of a panic (a failed assert! or an
\* unwrap of None); a Point is <<x, y>>.
NoPoint == <<>>
Panicked == <<"panic">>

\* The scaled secp256k1: y^2 = x^3 + 7 over GF(61), of prime order 61, so
\* that 2^(W-1) < n < 2^W as for the curve of the source.
SECP256K1 == [a |-> 0, b |-> 7, p |-> 61, g |-> <<2, 25>>, n |-> 61]

\* Two more curves of prime order for the functions that take the curve as
\* a parameter: one with n < p and one with n > p.
CurveP43 == [a |-> 0, b |-> 7, p |-> 43, g |-> <<2, 12>>, n |-> 31]
CurveP31 == [a |-> 0, b |-> 3, p |-> 31, g |-> <<1, 2>>, n |-> 43]
Curves == {SECP256K1, CurveP43, CurveP31}

add_points(curve, p1, p2) ==
    IF p1 = Panicked \/ p2 = Panicked
    THEN Panicked
    ELSE LET x1 == p1[1]
             y1 == p1[2]
             x2 == p2[1]
             y2 == p2[2]
             p == curve.p
         IN  IF x1 = x2 /\ ~(y1 = y2 /\ y1 # 0)
             THEN Panicked
             ELSE LET m == IF x1 = x2
                           THEN mul_mod(add_mod(mul_mod(mul_mod(x1, x1, p), 3, p),
                                                curve.a, p),
                                        mod_inverse(mul_mod(2, y1, p), p), p)
                           ELSE mul_mod(sub_mod(y2, y1, p),
                                        mod_inverse(sub_mod(x2, x1, p), p), p)
                      x3 == sub_mod(sub_mod(mul_mod(m, m, p), x1, p), x2, p)
                      y3 == sub_mod(mul_mod(m, sub_mod(x1, x3, p), p), y1, p)
                  IN  <<x3, y3>>

\* The while loop of scalar_multiply; a panic of add_points ends the call,
\* also when it comes from the doubling of the addend after the last bit.
RECURSIVE scalar_multiply_loop(_, _, _, _)
scalar_multiply_loop(curve, k, addend, result) ==
    IF k # 0
    THEN LET r1 == IF k % 2 = 1
                   THEN IF result = NoPoint
                        THEN addend
                        ELSE add_points(curve, result, addend)
                   ELSE result
             a1 == add_points(curve, addend, addend)
         IN  IF r1 = Panicked \/ a1 = Panicked
             THEN Panicked
             ELSE scalar_multiply_loop(curve, k \div 2, a1, r1)
    ELSE IF result = NoPoint THEN Panicked ELSE result

scalar_multiply(curve, k, point) ==
    scalar_multiply_loop(curve, k, point, NoPoint)

(***************************************************************************)
(* insecure_ecdsa.rs                                                       *)
(***************************************************************************)

\* The table entry with the nonce k taken to be 2^i itself, not its inverse.
constant_entry_no_inverse(curve, i) ==
    LET k_pow_neg1 == 2 ^ i
        point == scalar_multiply(curve, k_pow_neg1, curve.g)
        r == point[1] % curve.n
    IN  [k_pow_neg1_times_r |-> mul_mod(k_pow_neg1, r, curve.n), r |-> r]

\* The body of the loop of generate_ecdsa_constants for one i in 0 .. W-1.
constant_entry(curve, i) ==
    LET k_pow_neg1 == 2 ^ i
        k == mod_inverse(k_pow_neg1, curve.n)
        point == scalar_multiply(curve, k, curve.g)
        r == point[1] % curve.n
    IN  [k_pow_neg1_times_r |-> mul_mod(k_pow_neg1, r, curve.n), r |-> r]

generate_ecdsa_constants(curve) ==
    [j \in 1 .. W |-> constant_entry(curve, j - 1)]

\* The number of base64 characters of a signature (86 in the source): the
\* 2W bits of r || s, six to a character, the last one padded with zeros.
SigLen == (2 * W + 5) \div 6
SigPad == 6 * SigLen - 2 * W

RECURSIVE Digits(_, _, _)
\* The `len` digits of v in base `base`, most significant first.
Digits(v, base, len) ==
    IF len = 0 THEN <<>> ELSE Append(Digits(v \div base, base, len - 1), v % base)

\* BASE64_URL_SAFE_NO_PAD.encode of sig_buf = r.to_be_bytes() || s.to_be_bytes();
\* a character is its index in the base64 alphabet.
encode_sig(r, s) == Digits((r * TwoW + s) * (2 ^ SigPad), 64, SigLen)

\* digest %= curve.n
reduce_digest_skipped(digest, n) == digest

reduce_digest(digest, n) == digest % n

\* Low-s substitution left out.
low_s_skipped(s, n) == s

\* if s > curve.n / 2 { s = curve.n - s }
low_s(s, n) == IF s > n \div 2 THEN WSub(n, s) ELSE s

\* The doubling of the running digest left out.
shift_digest_skipped(digest, n) == digest

\* if digest < curve.n - digest { digest <<= 1 } else { digest -= curve.n - digest }
shift_digest(digest, n) ==
    IF digest < WSub(n, digest) THEN WShl1(digest) ELSE WSub(digest, WSub(n, digest))

\* The rest of one pass of the loop of generate_signatures after the
\* reduction, on the reduced digest: the assertion, the signature pushed
\* and the digest the next pass starts from.
signature_step(digest, entry, n) ==
    LET s0 == add_mod(digest, entry.k_pow_neg1_times_r, n)
    IN  [panic |-> s0 = 0,
         sig |-> encode_sig(entry.r, low_s(s0, n)),
         digest |-> shift_digest(digest, n)]

\* The for loop of generate_signatures from entry j on, `signatures` being
\* what was pushed so far: [panic |-> FALSE, sigs |-> the vector returned],
\* or panic |-> TRUE when the assertion fails at some entry (nothing is
\* returned then). The pass is bound through a singleton set, which has
\* its value computed once per entry.
RECURSIVE generate_signatures_from(_, _, _, _, _)
generate_signatures_from(digest, constants, n, j, signatures) ==
    IF j > Len(constants)
    THEN [panic |-> FALSE, sigs |-> signatures]
    ELSE LET rest(st) ==
                 IF st.panic
                 THEN [panic |-> TRUE, sigs |-> <<>>]
                 ELSE generate_signatures_from(st.digest, constants, n, j + 1,
                                               Append(signatures, st.sig))
         IN  CHOOSE r \in {rest(st) : st \in
                             {signature_step(reduce_digest(digest, n), constants[j], n)}} : TRUE

\* generate_signatures on a buffer whose SHA-256 is `hash`.
generate_signatures(hash, constants, curve) ==
    generate_signatures_from(hash, constants, curve.n, 1, <<>>)

(***************************************************************************)
(* Calls of add_mod, mod_inverse and mul_mod on every modulus of the word  *)
(***************************************************************************)

MathOff ==
    /\ mpc = "off" /\ mn = 1 /\ ma = 0 /\ mb = 0
    /\ mres = [result |-> 0, raw |-> {}]

SigOff ==
    /\ gpc = "off" /\ g_curve = SECP256K1 /\ g_constants = <<>>
    /\ g_hash = 0 /\ g_digest = 0 /\ g_idx = 0 /\ g_signatures = <<>>

PoolOff ==
    /\ dry_run = TRUE /\ regex = {} /\ seed = 0
    /\ running_flag = FALSE /\ mainpc = "off"
    /\ wpc = <<>> /\ wi = <<>> /\ last_metrics_i = <<>>
    /\ unsigned_buf = <<>> /\ signed_buf = <<>> /\ signed_op = <<>>
    /\ sigs = <<>> /\ wj = <<>>
    /\ total_checked = 0 /\ channel = <<>> /\ rx_open = FALSE
    /\ subpc = "off" /\ submsg = <<>> /\ written = {}

InitMath ==
    /\ mpc = "input"
    /\ mn \in 1 .. (TwoW - 1)
    /\ ma \in 0 .. (mn - 1)
    /\ mb = 0
    /\ mres = [result |-> 0, raw |-> {}]
    /\ SigOff
    /\ PoolOff

CallAddMod ==
    /\ mpc = "input"
    /\ \E b \in 0 .. (mn - 1) :
          /\ mb' = b
          /\ mres' = add_mod_trace(ma, b, mn)
    /\ mpc' = "add_mod"
    /\ UNCHANGED <<mn, ma, sigVars, poolVars>>

CallModInverse ==
    /\ mpc = "input"
    /\ mres' = [result |-> mod_inverse(ma, mn), raw |-> {}]
    /\ mpc' = "mod_inverse"
    /\ UNCHANGED <<mn, ma, mb, sigVars, poolVars>>

\* mul_mod(a, mod_inverse(a, n), n)
CallMulMod ==
    /\ mpc = "mod_inverse"
    /\ mb' = mres.result
    /\ mres' = [result |-> mul_mod(ma, mres.result, mn), raw |-> {}]
    /\ mpc' = "mul_mod"
    /\ UNCHANGED <<mn, ma, sigVars, poolVars>>

NextMath == CallAddMod \/ CallModInverse \/ CallMulMod

SpecMath == InitMath /\ [][NextMath]_vars

(***************************************************************************)
(* One call of generate_signatures, pass by pass                           *)
(***************************************************************************)

InitSig ==
    /\ gpc = "reduce"
    /\ g_curve \in Curves
    /\ g_constants = generate_ecdsa_constants(g_curve)
    /\ g_hash \in Word
    /\ g_digest = g_hash
    /\ g_idx = 0
    /\ g_signatures = <<>>
    /\ MathOff
    /\ PoolOff

\* digest %= curve.n at the top of a pass
GenReduce ==
    /\ gpc = "reduce"
    /\ g_idx < Len(g_constants)
    /\ g_digest' = reduce_digest(g_digest, g_curve.n)
    /\ gpc' = "add"
    /\ UNCHANGED <<g_curve, g_constants, g_hash, g_idx, g_signatures, mathVars, poolVars>>

\* the rest of the pass: add_mod, the assertion, low-s, the doubling, push
GenStep ==
    /\ gpc = "add"
    /\ LET st == signature_step(g_digest, g_constants[g_idx + 1], g_curve.n)
       IN  IF st.panic
           THEN /\ gpc' = "panic"
                /\ g_signatures' = <<>>
                /\ UNCHANGED <<g_digest, g_idx>>
           ELSE /\ gpc' = "reduce"
                /\ g_signatures' = Append(g_signatures, st.sig)
                /\ g_digest' = st.digest
                /\ g_idx' = g_idx + 1
    /\ UNCHANGED <<g_curve, g_constants, g_hash, mathVars, poolVars>>

GenReturn ==
    /\ gpc = "reduce"
    /\ g_idx = Len(g_constants)
    /\ gpc' = "done"
    /\ UNCHANGED <<g_curve, g_constants, g_hash, g_digest, g_idx, g_signatures, mathVars, poolVars>>

NextSig == GenReduce \/ GenStep \/ GenReturn

SpecSig == InitSig /\ [][NextSig]_vars

(***************************************************************************)
(* main.rs: the workers (crack_did), the submitter task and main           *)
(***************************************************************************)

\* cracker_threads
NumWorkers == 2
Workers == 0 .. (NumWorkers - 1)

\* The iterations a worker may start; the source has no such limit.
MaxIter == 4

\* METRIC_UPDATE_INTERVAL, scaled from 1000.
METRIC_UPDATE_INTERVAL == 2

\* The hex digits of the counter field (32 in the source, for a u128) and
\* the bits of it below the thread index (96 in the source).
HexLen == 1
SeqBits == 2
CounterMod == 16 ^ HexLen

\* The characters base32 gives for a W-bit hash, and the characters kept
\* by digest.truncate (24 in the source).
Base32Len == (W + 4) \div 5
DidLen == 1

RECURSIVE BitOr(_, _)
BitOr(x, y) ==
    IF x = 0 /\ y = 0
    THEN 0
    ELSE (IF x % 2 = 1 \/ y % 2 = 1 THEN 1 ELSE 0) + 2 * BitOr(x \div 2, y \div 2)

\* The counter with the thread index or-ed in unshifted.
i_hex_unshifted(i, thread_idx) ==
    Digits(BitOr(i, thread_idx) % CounterMod, 16, HexLen)

\* format!("{:032x}", i | (thread_idx as u128) << 96): the shift drops the
\* bits that leave the u128.
i_hex(i, thread_idx) ==
    Digits(BitOr(i, (thread_idx * (2 ^ SeqBits)) % CounterMod) % CounterMod, 16, HexLen)

RECURSIVE Sha256Update(_, _)
\* The hash state after the first k bytes: a fixed mixing of the bytes
\* stands for the compression function.
Sha256Update(bytes, k) ==
    IF k = 0
    THEN 1
    ELSE (Sha256Update(bytes, k - 1) * 29 + bytes[k] + 7) % TwoW

\* Sha256::digest as an integer of the word.
Sha256(bytes) == Sha256Update(bytes, Len(bytes))

\* The bytes of the two CBOR buffers that differ between runs and
\* iterations: the seed of services.did_prefix.type, the counter and (in
\* the signed buffer) the signature.
unsigned_bytes(buf) == <<buf.seed>> \o buf.i
signed_bytes(buf) == <<buf.seed>> \o buf.i \o buf.sig

\* base32::encode(Rfc4648Lower, no padding) of the hash, then truncate.
did_digest(buf) ==
    SubSeq(Digits(Sha256(signed_bytes(buf)) * (2 ^ (5 * Base32Len - W)), 32, Base32Len),
           1, DidLen)

\* regex.is_match: a regex is the set of identifiers it matches.
is_match(re, dg) == dg \in re

\* format!("did:plc:{}", &digest)
did_of(dg) == <<"did:plc:">> \o dg

\* signed_op with only the counter patched in, the signature left stale.
patched_op_stale_sig(op, hex, sig) == [op EXCEPT !.endpoint = hex]

\* signed_op after the two assignments before the send.
patched_op(op, hex, sig) == [op EXCEPT !.endpoint = hex, !.sig = sig]

\* The amount added to total_checked without the last reported i taken off.
metrics_delta_from_zero(i, last, len) == i * len

\* (i - last_metrics_i) * constants.len()
metrics_delta(i, last, len) == (i - last) * len

\* The loop condition with the flag never looked at.
keep_running_ignored(flag) == TRUE

\* shutdown_flag.load(Ordering::Relaxed) as the loop condition
keep_running(flag) == flag

Terminated == {"done", "send_failed", "panicked"}

\* The seeds tried (nonzero: 0 asks for a random one).
Seeds == {1, 3}

\* main's table of constants.
PoolConstants == generate_ecdsa_constants(SECP256K1)

\* What one pass of the outer loop of crack_did computes from the seed, the
\* thread and i alone: the counter patched in, the outcome of
\* generate_signatures on the unsigned buffer and, per signature, the
\* identifier of the signed buffer with counter and signature patched in.
\* The outcome of generate_signatures is bound through a singleton set,
\* which has its value computed once.
Batch(constants, sd, t, i) ==
    LET hex == i_hex(i, t)
        pass(gs) ==
            [hex |-> hex, panic |-> gs.panic, sigs |-> gs.sigs,
             digests |-> [k \in 1 .. Len(gs.sigs) |->
                            did_digest([seed |-> sd, i |-> hex, sig |-> gs.sigs[k]])]]
    IN  CHOOSE b \in {pass(gs) : gs \in
                        {generate_signatures(Sha256(unsigned_bytes([seed |-> sd, i |-> hex])),
                                             constants, SECP256K1)}} : TRUE

\* Batch on main's table of constants, tabulated once.
Batches ==
    CHOOSE f \in {[sd \in Seeds, t \in Workers, i \in 0 .. MaxIter |-> Batch(c, sd, t, i)] :
                    c \in {PoolConstants}} : TRUE

\* The regexes tried: each the set of identifiers it accepts.
Regexes == {{<<3>>}, {<<25>>}}

InitPool ==
    /\ dry_run \in BOOLEAN
    /\ regex \in Regexes
    /\ seed \in Seeds
    /\ g_curve = SECP256K1
    /\ g_constants = PoolConstants
    /\ gpc = "off" /\ g_hash = 0 /\ g_digest = 0 /\ g_idx = 0 /\ g_signatures = <<>>
    /\ running_flag = TRUE
    /\ mainpc = "wait_ctrl_c"
    /\ wpc = [t \in Workers |-> "top"]
    /\ wi = [t \in Workers |-> 0]
    /\ last_metrics_i = [t \in Workers |-> 0]
    /\ unsigned_buf = [t \in Workers |-> [seed |-> seed, i |-> [k \in 1 .. HexLen |-> 0]]]
    /\ signed_buf = [t \in Workers |->
                       [seed |-> seed, i |-> [k \in 1 .. HexLen |-> 0],
                        sig |-> [k \in 1 .. SigLen |-> 64]]]
    /\ signed_op = [t \in Workers |->
                      [endpoint |-> [k \in 1 .. HexLen |-> 0],
                       sig |-> [k \in 1 .. SigLen |-> 64]]]
    /\ sigs = [t \in Workers |-> <<>>]
    /\ wj = [t \in Workers |-> 1]
    /\ total_checked = 0
    /\ channel = <<>>
    /\ rx_open = TRUE
    /\ subpc = "recv"
    /\ submsg = <<>>
    /\ written = {}
    /\ MathOff

\* The loop condition is false: crack_did returns.
WorkerExit(t) ==
    /\ wpc[t] = "top"
    /\ ~keep_running(running_flag)
    /\ wpc' = [wpc EXCEPT ![t] = "done"]
    /\ UNCHANGED <<wi, last_metrics_i, unsigned_buf, signed_buf, signed_op, sigs, wj>>
    /\ UNCHANGED <<mathVars, sigVars, argVars, running_flag, mainpc, total_checked,
                   channel, rx_open, subpc, submsg, written>>

\* The loop condition is true: patch the counter into both buffers and
\* generate the signatures of the batch (or panic on a zero s).
WorkerBatch(t) ==
    /\ wpc[t] = "top"
    /\ keep_running(running_flag)
    /\ wi[t] < MaxIter
    /\ \E b \in {Batches[seed, t, wi[t]]} :
           /\ unsigned_buf' = [unsigned_buf EXCEPT ![t].i = b.hex]
           /\ signed_buf' = [signed_buf EXCEPT ![t].i = b.hex]
           /\ written' = written \cup {[t |-> t, i |-> wi[t], hex |-> b.hex]}
           /\ IF b.panic
              THEN /\ wpc' = [wpc EXCEPT ![t] = "panicked"]
                   /\ UNCHANGED <<sigs, wj>>
              ELSE /\ wpc' = [wpc EXCEPT ![t] = "scan"]
                   /\ sigs' = [sigs EXCEPT ![t] = b.sigs]
                   /\ wj' = [wj EXCEPT ![t] = 1]
    /\ UNCHANGED <<wi, last_metrics_i, signed_op>>
    /\ UNCHANGED <<mathVars, sigVars, argVars, running_flag, mainpc, total_checked,
                   channel, rx_open, subpc, submsg>>

\* signed_buf with the signature k of the batch patched in.
with_sig(t, k) == [signed_buf[t] EXCEPT !.sig = sigs[t][k]]

\* The signatures of the batch b from wj[t] on whose identifier matches.
Matching(t, b) ==
    {k \in wj[t] .. Len(sigs[t]) : is_match(regex, b.digests[k])}

\* The inner loop up to and including its next match: the signature is
\* patched into signed_buf, the identifier computed, signed_op patched and
\* sent; a failed send returns from crack_did.
WorkerMatch(t) ==
    /\ wpc[t] = "scan"
    /\ \E b \in {Batches[seed, t, wi[t]]} : \E k \in Matching(t, b) :
           /\ \A m \in Matching(t, b) : k <= m
           /\ LET op == patched_op(signed_op[t], unsigned_buf[t].i, sigs[t][k])
                  did == did_of(b.digests[k])
              IN  /\ signed_buf' = [signed_buf EXCEPT ![t] = with_sig(t, k)]
                  /\ signed_op' = [signed_op EXCEPT ![t] = op]
                  /\ IF rx_open
                     THEN /\ channel' = Append(channel, [op |-> op, did |-> did])
                          /\ wj' = [wj EXCEPT ![t] = k + 1]
                          /\ wpc' = wpc
                     ELSE /\ wpc' = [wpc EXCEPT ![t] = "send_failed"]
                          /\ UNCHANGED <<channel, wj>>
    /\ UNCHANGED <<wi, last_metrics_i, unsigned_buf, sigs>>
    /\ UNCHANGED <<mathVars, sigVars, argVars, running_flag, mainpc, total_checked,
                   rx_open, subpc, submsg, written>>

\* The rest of the inner loop when nothing more matches, then i += 1 and
\* the update of the metrics every METRIC_UPDATE_INTERVAL iterations.
WorkerEndBatch(t) ==
    /\ wpc[t] = "scan"
    /\ Matching(t, Batches[seed, t, wi[t]]) = {}
    /\ signed_buf' = IF wj[t] <= Len(sigs[t])
                     THEN [signed_buf EXCEPT ![t] = with_sig(t, Len(sigs[t]))]
                     ELSE signed_buf
    /\ wi' = [wi EXCEPT ![t] = wi[t] + 1]
    /\ IF (wi[t] + 1) % METRIC_UPDATE_INTERVAL = 0
       THEN /\ total_checked' = total_checked
                  + metrics_delta(wi[t] + 1, last_metrics_i[t], Len(g_constants))
            /\ last_metrics_i' = [last_metrics_i EXCEPT ![t] = wi[t] + 1]
       ELSE UNCHANGED <<total_checked, last_metrics_i>>
    /\ wpc' = [wpc EXCEPT ![t] = "top"]
    /\ UNCHANGED <<unsigned_buf, signed_op, sigs, wj>>
    /\ UNCHANGED <<mathVars, sigVars, argVars, running_flag, mainpc,
                   channel, rx_open, subpc, submsg, written>>

WorkerNext(t) ==
    WorkerExit(t) \/ WorkerBatch(t) \/ WorkerMatch(t) \/ WorkerEndBatch(t)

\* output_channel_rx.recv() returns a message; under --dry-run it is
\* printed, otherwise the POST is started.
SubmitterRecv ==
    /\ subpc = "recv"
    /\ mainpc # "goodbye"
    /\ channel # <<>>
    /\ channel' = Tail(channel)
    /\ IF dry_run
       THEN UNCHANGED <<subpc, submsg>>
       ELSE /\ subpc' = "post"
            /\ submsg' = Head(channel)
    /\ UNCHANGED <<mathVars, sigVars, argVars, running_flag, mainpc, workerVars,
                   total_checked, rx_open, written>>

\* The request is answered and the body read and printed.
SubmitterPosted ==
    /\ subpc = "post"
    /\ mainpc # "goodbye"
    /\ subpc' = "recv"
    /\ submsg' = <<>>
    /\ UNCHANGED <<mathVars, sigVars, argVars, running_flag, mainpc, workerVars,
                   total_checked, channel, rx_open, written>>

\* The request or the read of the body fails: expect() panics, the task
\* ends and drops output_channel_rx with whatever it still holds.
SubmitterFailed ==
    /\ subpc = "post"
    /\ mainpc # "goodbye"
    /\ subpc' = "panicked"
    /\ rx_open' = FALSE
    /\ channel' = <<>>
    /\ UNCHANGED submsg
    /\ UNCHANGED <<mathVars, sigVars, argVars, running_flag, mainpc, workerVars,
                   total_checked, written>>

\* ctrl-c arrives: running_flag.store(false)
CtrlC ==
    /\ mainpc = "wait_ctrl_c"
    /\ running_flag' = FALSE
    /\ mainpc' = "join"
    /\ UNCHANGED <<mathVars, sigVars, argVars, workerVars, total_checked, channel,
                   rx_open, subpc, submsg, written>>

\* Every cracker_handle.join() has returned.
JoinAll ==
    /\ mainpc = "join"
    /\ \A t \in Workers : wpc[t] \in Terminated
    /\ mainpc' = "goodbye"
    /\ UNCHANGED <<mathVars, sigVars, argVars, running_flag, workerVars, total_checked,
                   channel, rx_open, subpc, submsg, written>>

NextPool ==
    \/ \E t \in Workers : WorkerNext(t)
    \/ SubmitterRecv
    \/ SubmitterPosted
    \/ SubmitterFailed
    \/ CtrlC
    \/ JoinAll

SpecPool == InitPool /\ [][NextPool]_vars

\* Worker threads are OS threads: each keeps being scheduled.
FairPool == SpecPool /\ \A t \in Workers : WF_vars(WorkerNext(t))

(***************************************************************************)
(* Reference arithmetic the properties are stated with: the group law of   *)
(* the curve with the point at infinity (NoPoint), inverses by search.     *)
(***************************************************************************)

RECURSIVE GCD(_, _)
GCD(x, y) == IF y = 0 THEN x ELSE GCD(y, x % y)

RefInverse(x, n) == CHOOSE y \in 1 .. (n - 1) : (x * y) % n = 1

RefAdd(cv, P, Q) ==
    IF P = NoPoint THEN Q
    ELSE IF Q = NoPoint THEN P
    ELSE IF P[1] = Q[1] /\ (P[2] + Q[2]) % cv.p = 0 THEN NoPoint
    ELSE LET m == IF P = Q
                  THEN ((3 * P[1] * P[1] + cv.a) * RefInverse((2 * P[2]) % cv.p, cv.p)) % cv.p
                  ELSE ((Q[2] - P[2]) * RefInverse((Q[1] - P[1]) % cv.p, cv.p)) % cv.p
             x3 == (m * m - P[1] - Q[1]) % cv.p
         IN  <<x3, (m * (P[1] - x3) - P[2]) % cv.p>>

RECURSIVE RefMul(_, _, _)
RefMul(cv, k, P) ==
    IF k = 0
    THEN NoPoint
    ELSE LET h == RefMul(cv, k \div 2, P)
             d == RefAdd(cv, h, h)
         IN  IF k % 2 = 1 THEN RefAdd(cv, d, P) ELSE d

RECURSIVE Value(_, _)
\* The number a sequence of digits stands for.
Value(ds, base) ==
    IF ds = <<>> THEN 0 ELSE Value(SubSeq(ds, 1, Len(ds) - 1), base) * base + ds[Len(ds)]

\* (r, s) of a signature string: base64-decode, split the 2W bits.
SigR(sig) == (Value(sig, 64) \div (2 ^ SigPad)) \div TwoW
SigS(sig) == (Value(sig, 64) \div (2 ^ SigPad)) % TwoW

\* ECDSA verification of (r, s) on the hash e against the public key 1*G.
Verifies(cv, e, r, s) ==
    /\ s % cv.n # 0
    /\ LET sinv == RefInverse(s % cv.n, cv.n)
           u1 == (e * sinv) % cv.n
           u2 == (r * sinv) % cv.n
           pt == RefAdd(cv, RefMul(cv, u1, cv.g), RefMul(cv, u2, cv.g))
       IN  pt # NoPoint /\ pt[1] % cv.n = r % cv.n

\* s before the low-s substitution at the entry j (1-based) of the table.
RawS(j) == ((2 ^ (j - 1)) * g_hash + g_constants[j].k_pow_neg1_times_r) % g_curve.n

(***************************************************************************)
(* Properties                                                              *)
(***************************************************************************)

\* C1: every signature generate_signatures has pushed, for the table of
\* generate_ecdsa_constants(curve), verifies under ECDSA against the public
\* key 1*G on the hash of the document: x(u1*G + u2*G) = r (mod n).
C1_SignaturesVerify ==
    \A j \in 1 .. Len(g_signatures) :
        /\ SigR(g_signatures[j]) = g_constants[j].r
        /\ Verifies(g_curve, g_hash, SigR(g_signatures[j]), SigS(g_signatures[j]))

\* The call returned all W signatures, one of them from a high s that was
\* substituted and one with the hash itself above n.
C1_Witness ==
    /\ gpc = "done"
    /\ Len(g_signatures) = W
    /\ g_hash > g_curve.n
    /\ \E j \in 1 .. W : RawS(j) > g_curve.n \div 2

\* C2: every signature pushed has 1 <= s <= floor(n/2); when
\* (digest + c_i) mod n is 0 at an entry the call panics there and returns
\* no signature.
C2_LowSOrAbort ==
    /\ [](/\ \A j \in 1 .. Len(g_signatures) :
               SigS(g_signatures[j]) \in 1 .. (g_curve.n \div 2)
          /\ gpc = "panic" => g_signatures = <<>>)
    /\ [][(gpc = "add"
           /\ (g_digest + g_constants[g_idx + 1].k_pow_neg1_times_r) % g_curve.n = 0)
          => (gpc' = "panic" /\ g_signatures' = <<>>)]_vars

\* A call that panicked on a zero s after it had pushed signatures.
C2_Witness ==
    /\ gpc = "panic"
    /\ g_idx > 0
    /\ \E j \in 1 .. g_idx : RawS(j) > g_curve.n \div 2

\* C6: for n >= 1 and a, b in [0, n), add_mod returns (a + b) mod n, in
\* [0, n), and no intermediate of the computation leaves [0, 2^W - 1].
C6_AddMod ==
    mpc = "add_mod" =>
        /\ mres.result = (ma + mb) % mn
        /\ mres.result \in 0 .. (mn - 1)
        /\ mres.raw \subseteq Word

\* add_mod on the largest modulus, where a + b itself does not fit the word.
C6_Witness ==
    /\ mpc = "add_mod"
    /\ mn = TwoW - 1
    /\ ma + mb >= TwoW

\* C7: for a in [1, n) coprime to n, mul_mod(a, mod_inverse(a, n), n) = 1
\* and mod_inverse(a, n) lies in [1, n).
C7_Inverse ==
    (mpc = "mul_mod" /\ ma \in 1 .. (mn - 1) /\ GCD(ma, mn) = 1) =>
        /\ mres.result = 1
        /\ mb \in 1 .. (mn - 1)

\* The inverse of n - 1 modulo the largest n, which the algorithm reaches
\* as a negative coefficient.
C7_Witness ==
    /\ mpc = "mul_mod"
    /\ mn = TwoW - 1
    /\ ma = TwoW - 2
    /\ mb = TwoW - 2

\* C8: the digest that enters the add_mod step of pass i (0-based) is
\* (2^i * e) mod n, in [0, n).
C8_DigestInvariant ==
    gpc = "add" =>
        /\ g_digest = ((2 ^ g_idx) * g_hash) % g_curve.n
        /\ g_digest \in 0 .. (g_curve.n - 1)

\* The last pass of a call whose hash was above n.
C8_Witness ==
    /\ gpc = "add"
    /\ g_idx = W - 1
    /\ g_hash > g_curve.n
    /\ g_digest # 0

RECURSIVE SumUpTo(_, _)
\* f[0] + ... + f[n - 1]
SumUpTo(f, n) == IF n = 0 THEN 0 ELSE SumUpTo(f, n - 1) + f[n - 1]

AllExited == \A t \in Workers : wpc[t] \in Terminated

\* The messages in flight: in the channel, or held by the submitter.
InFlight ==
    {channel[k] : k \in 1 .. Len(channel)} \cup (IF subpc = "post" THEN {submsg} ELSE {})

\* The signed buffer a message's fields were patched into.
BufferOf(m) == [seed |-> seed, i |-> m.op.endpoint, sig |-> m.op.sig]

\* C3 as stated: once the flag is cleared and every worker has exited,
\* total_checked is the sum over the workers of iterations completed times
\* the number of table entries.
C3_TotalIsAllWork ==
    (~running_flag /\ AllExited) =>
        total_checked = SumUpTo([t \in Workers |-> wi[t] * Len(g_constants)], NumWorkers)

\* C3 amended: once the flag is cleared and every worker has exited,
\* total_checked is the sum over the workers of the iterations completed,
\* rounded down to a multiple of METRIC_UPDATE_INTERVAL, times the number of
\* table entries.
C3_TotalIsReportedWork ==
    (~running_flag /\ AllExited) =>
        total_checked =
            SumUpTo([t \in Workers |->
                        (wi[t] - (wi[t] % METRIC_UPDATE_INTERVAL)) * Len(g_constants)],
                    NumWorkers)

\* Shutdown is over, one worker has reported twice and one has left
\* iterations unreported.
C3_Witness ==
    /\ mainpc = "goodbye"
    /\ \E t \in Workers : last_metrics_i[t] >= 2 * METRIC_UPDATE_INTERVAL
    /\ \E t \in Workers : wi[t] % METRIC_UPDATE_INTERVAL # 0

\* C4: once the flag is cleared a worker at the top of its loop starts no
\* batch, i advances only by the end of the batch under way, and every
\* worker eventually exits.
C4_ShutdownWithinOneBatch ==
    /\ [][\A t \in Workers :
             /\ (~running_flag /\ wpc[t] = "top") => wpc'[t] \in {"top", "done"}
             /\ (~running_flag /\ wpc[t] # "scan") => wi'[t] = wi[t]]_vars
    /\ (~running_flag) ~> AllExited

\* The flag was cleared in the middle of the run and every worker has left
\* through the loop condition.
C4_Witness ==
    /\ ~running_flag
    /\ \A t \in Workers : wpc[t] = "done"
    /\ \E t \in Workers : wi[t] > 0

\* C5 as stated: a failure of the submitter's request stays in the
\* submitter: while the running flag is set, no worker has returned from
\* its loop on a failed send.
C5_FailureContained ==
    (subpc = "panicked" /\ running_flag) => \A t \in Workers : wpc[t] # "send_failed"

\* C9: the counters patched in by worker t at iteration i are pairwise
\* different over all workers and iterations, for thread indices that fit
\* the bits above SeqBits and iterations below 2^SeqBits.
C9_CountersDistinct ==
    \A a \in written : \A b \in written :
        (/\ a.t < CounterMod \div (2 ^ SeqBits) /\ b.t < CounterMod \div (2 ^ SeqBits)
         /\ a.i < 2 ^ SeqBits /\ b.i < 2 ^ SeqBits
         /\ (a.t # b.t \/ a.i # b.i))
        => a.hex # b.hex

\* Two workers have written their counters of the same iteration past the
\* first, and a worker has written the last counter below 2^SeqBits.
C9_Witness ==
    /\ \E a \in written : \E b \in written : a.t # b.t /\ a.i = b.i /\ a.i > 0
    /\ \E a \in written : a.t > 0 /\ a.i = 2 ^ SeqBits - 1

\* C10: every message in flight carries the counter and the signature of
\* the signed buffer its identifier was computed from, "did:plc:" followed
\* by that identifier of DidLen characters, and the identifier matches the
\* regex; a message sent is the sender's buffer and operation of that
\* moment, and no later step changes a message in the channel.
C10_MessagesConsistent ==
    /\ [](\A m \in InFlight :
             /\ m.did = did_of(did_digest(BufferOf(m)))
             /\ Len(m.did) = 1 + DidLen
             /\ is_match(regex, did_digest(BufferOf(m))))
    /\ [][\/ channel' = channel
          \/ (channel # <<>> /\ channel' = Tail(channel))
          \/ channel' = <<>>
          \/ /\ Len(channel') = Len(channel) + 1
             /\ SubSeq(channel', 1, Len(channel)) = channel
             /\ \E t \in Workers :
                   /\ channel'[Len(channel')].op = signed_op'[t]
                   /\ signed_buf'[t] = BufferOf(channel'[Len(channel')])
                   /\ unsigned_buf[t].i = signed_buf'[t].i]_vars

\* A message is still in the channel while its sender has gone on to a
\* later match.
C10_Witness ==
    \E k \in 1 .. Len(channel) : \E t \in Workers :
        /\ channel[k].op.endpoint \in {w.hex : w \in {x \in written : x.t = t}}
        /\ signed_op[t].endpoint \in {w.hex : w \in {x \in written : x.t = t}}
        /\ signed_op[t] # channel[k].op

====
